---- MODULE Spec2Model ----
(***************************************************************************)
(* Model of scripts/generate_test_references.py: the dependency probe, the *)
(* GUI-automation converter, the rasterizer invoker, the metadata writer   *)
(* and the entry point, run against a small file system.                   *)
(*                                                                         *)
(* A file name is a sequence of tokens, "." being a token of its own, so   *)
(* that pathlib's suffix arithmetic is computed and not assumed.  A path   *)
(* is a sequence of names relative to the working directory; <<>> is ".".  *)
(***************************************************************************)
EXTENDS Integers, Sequences, FiniteSets, TLC

\* ---------------------------------------------------------------- bounds
MaxNameLen == 3
MaxRuns == 2
MaxDepth == 2
MaxPages == 1

\* ------------------------------------------------------------ file names
Alphabet == {"a", ".", "json"}

DotName == <<".">>
DotDotName == <<".", ".">>

\* Final components a pathlib.Path can have: "." is dropped by the parser
\* and ".." is the parent link, so neither names a file.
Names ==
  (UNION {[1..n -> Alphabet] : n \in 1..MaxNameLen}) \ {DotName, DotDotName}

\* str.rfind('.'), 1-based, 0 when there is no dot.
LastDot(name) ==
  LET dots == {i \in 1..Len(name) : name[i] = "."}
  IN IF dots = {} THEN 0 ELSE CHOOSE i \in dots : \A j \in dots : j <= i

\* PurePath.suffix: the last dot counts only when it is neither the first
\* nor the last character of the name.
Suffix(name) ==
  LET j == LastDot(name)
  IN IF 1 < j /\ j < Len(name) THEN SubSeq(name, j, Len(name)) ELSE <<>>

\* PurePath.stem
Stem(name) ==
  LET j == LastDot(name)
  IN IF 1 < j /\ j < Len(name) THEN SubSeq(name, 1, j - 1) ELSE name

\* PurePath.name: "" for the empty path.
PathName(p) == IF p = <<>> THEN <<>> ELSE p[Len(p)]

PathStem(p) == Stem(PathName(p))

\* PurePath.parent (lexical).
Parent(p) == IF p = <<>> THEN <<>> ELSE SubSeq(p, 1, Len(p) - 1)

\* PurePath.__truediv__ with one segment: "" and "." are dropped.
Join(p, seg) == IF seg = <<>> \/ seg = DotName THEN p ELSE Append(p, seg)

JsonSuffix == <<".", "json">>

\* PurePath.with_suffix: ValueError on an empty name, otherwise the old
\* suffix (if any) is cut off and the new one appended.
WithSuffix(p, suffix) ==
  LET name == PathName(p)
      old == Suffix(name)
      base == SubSeq(name, 1, Len(name) - Len(old))
  IN IF name = <<>>
       THEN [exc |-> "ValueError", path |-> <<>>]
       ELSE [exc |-> "none", path |-> Append(Parent(p), base \o suffix)]

\* str(path): the components joined by "/", "." for the empty path.
RECURSIVE PathStr(_)
PathStr(p) ==
  IF p = <<>> THEN <<".">>
  ELSE IF Len(p) = 1 THEN p[1]
  ELSE PathStr(Parent(p)) \o <<"/">> \o p[Len(p)]

IsProperPrefix(d, p) == Len(d) < Len(p) /\ SubSeq(p, 1, Len(d)) = d

\* ----------------------------------------------------------- file system
\* fs maps every existing (resolved) path to its node.  The working
\* directory <<>> always exists.
DirNode == [kind |-> "dir", content |-> <<>>]

FileNode(content) == [kind |-> "file", content |-> content]

\* The kernel's path walk: every component is looked up in an existing
\* directory; ".." steps to the parent.  Returns the location the last
\* component denotes, which may itself be absent.
RECURSIVE Lookup(_, _)
Lookup(f, p) ==
  IF p = <<>> THEN [err |-> "none", path |-> <<>>]
  ELSE LET up == Lookup(f, Parent(p))
           c == p[Len(p)]
       IN IF up.err # "none" THEN up
          ELSE IF up.path \notin DOMAIN f THEN [err |-> "ENOENT", path |-> <<>>]
          ELSE IF f[up.path].kind # "dir" THEN [err |-> "ENOTDIR", path |-> <<>>]
          ELSE IF c = DotDotName THEN [err |-> "none", path |-> Parent(up.path)]
          ELSE [err |-> "none", path |-> Append(up.path, c)]

\* Path.exists()
Exists(f, p) ==
  LET l == Lookup(f, p) IN l.err = "none" /\ l.path \in DOMAIN f

\* Path.is_dir()
IsDir(f, p) ==
  LET l == Lookup(f, p)
  IN l.err = "none" /\ l.path \in DOMAIN f /\ f[l.path].kind = "dir"

IsFile(f, p) ==
  LET l == Lookup(f, p)
  IN l.err = "none" /\ l.path \in DOMAIN f /\ f[l.path].kind = "file"

\* os.mkdir(p)
OsMkdir(f, p) ==
  LET l == Lookup(f, p)
  IN IF l.err # "none" THEN [err |-> l.err, fs |-> f]
     ELSE IF l.path \in DOMAIN f THEN [err |-> "EEXIST", fs |-> f]
     ELSE [err |-> "none", fs |-> (l.path :> DirNode) @@ f]

OSErrorName(err) ==
  CASE err = "ENOENT" -> "FileNotFoundError"
    [] err = "ENOTDIR" -> "NotADirectoryError"
    [] err = "EEXIST" -> "FileExistsError"
    [] OTHER -> "none"

\* Path.mkdir(parents=True, exist_ok=True)
RECURSIVE PathMkdir(_, _)
PathMkdir(f, p) ==
  LET first == OsMkdir(f, p)
  IN IF first.err = "none" THEN [exc |-> "none", fs |-> first.fs]
     ELSE IF first.err = "ENOENT"
       THEN IF p = <<>> THEN [exc |-> "FileNotFoundError", fs |-> f]
            ELSE LET up == PathMkdir(f, Parent(p))
                 IN IF up.exc # "none" THEN up
                    ELSE LET again == OsMkdir(up.fs, p)
                         IN IF again.err = "none" \/ (again.err # "ENOENT" /\ IsDir(up.fs, p))
                              THEN [exc |-> "none", fs |-> again.fs]
                              ELSE [exc |-> OSErrorName(again.err), fs |-> up.fs]
     ELSE IF IsDir(f, p) THEN [exc |-> "none", fs |-> f]
     ELSE [exc |-> OSErrorName(first.err), fs |-> f]

\* open(p, 'w') followed by one write of `content` and close: the file is
\* truncated, so the old content is gone.
OpenWrite(f, p, content) ==
  LET l == Lookup(f, p)
  IN IF l.err # "none" THEN [exc |-> OSErrorName(l.err), fs |-> f]
     ELSE IF l.path \in DOMAIN f /\ f[l.path].kind = "dir"
       THEN [exc |-> "IsADirectoryError", fs |-> f]
     ELSE [exc |-> "none",
           fs |-> [q \in DOMAIN f \cup {l.path} |->
                     IF q = l.path THEN FileNode(content) ELSE f[q]]]

\* ------------------------------------------------------- file contents
\* A file holds a sequence of documents.  Every document has the shape of
\* the metadata record, so that contents stay comparable.
MetadataKeys == {"source", "generated", "method", "dpi", "slides"}

DefaultDpi == 300

\* Whatever a file held before the tool ran.
PriorDoc ==
  [source |-> <<"?">>, generated |-> 0, method |-> "prior", dpi |-> 0,
   slides |-> <<>>]

\* The metadata dict of generate_reference_data; `now` is datetime.now().
Metadata(pptx_path, now) ==
  [source |-> PathStr(pptx_path), generated |-> now, method |-> "manual",
   dpi |-> DefaultDpi, slides |-> <<>>]

\* One page image written by the external rasterizer.
PageDoc(pdf_path, dpi, page) ==
  [source |-> PathStr(pdf_path), generated |-> 0, method |-> "png",
   dpi |-> dpi, slides |-> <<page>>]

\* ------------------------------------------------------------ subprocess
\* What launching an external command can come to.
RunOutcomes == {"exit0", "nonzero", "FileNotFoundError", "PermissionError"}

\* subprocess.run(cmd, check=check): the exception it raises, or "none".
SubprocessRun(check, outcome) ==
  CASE outcome = "exit0" -> "none"
    [] outcome = "nonzero" -> IF check THEN "CalledProcessError" ELSE "none"
    [] OTHER -> outcome

Tools ==
  << [name |-> "ImageMagick", cmd |-> [prog |-> "convert", args |-> << <<"--version">> >>]],
     [name |-> "Ghostscript", cmd |-> [prog |-> "gs", args |-> << <<"--version">> >>]] >>

ToolNames == {Tools[k].name : k \in 1..Len(Tools)}

ProbeCommands == {Tools[k].cmd : k \in 1..Len(Tools)}

\* The except clause of check_dependencies.
ProbeCaught == {"CalledProcessError", "FileNotFoundError"}

\* The except clause of pdf_to_images.
ConvertCaught == {"CalledProcessError"}

\* str(dpi) for the resolutions the model passes.
DpiStr(dpi) == IF dpi = 300 THEN <<"300">> ELSE <<"72">>

Digits == <<"0", "1", "2", "3", "4", "5", "6", "7", "8", "9">>

\* 'slide-%d.png' % page
SlideName(page) == <<"slide-", Digits[page + 1], ".", "png">>

SlidePattern == <<"slide-", "%d", ".", "png">>

ConvertCommand(pdf_path, output_dir, dpi) ==
  [prog |-> "convert",
   args |-> << <<"-density">>, DpiStr(dpi), <<"-quality">>, <<"100">>,
               PathStr(pdf_path), PathStr(Append(output_dir, SlidePattern)) >>]

OsascriptCommand(pptx_path, output_path) ==
  [prog |-> "osascript",
   args |-> << <<"-e">>, PathStr(pptx_path), PathStr(output_path) >>]

\* The rasterizer's own effect: it writes `pages` page images into the
\* directory it was pointed at, when it can walk there.
RECURSIVE WritePages(_, _, _, _, _)
WritePages(f, pdf_path, output_dir, dpi, pages) ==
  IF pages = 0 THEN f
  ELSE LET g == WritePages(f, pdf_path, output_dir, dpi, pages - 1)
           w == OpenWrite(g, Append(output_dir, SlideName(pages - 1)),
                          <<PageDoc(pdf_path, dpi, pages - 1)>>)
       IN w.fs

\* --------------------------------------------------------- output lines
BannerLines == << <<"PPTX Test Reference Generator">>, <<"rule">> >>

UsageLines == << <<"Usage">>, <<"demonstrates">>, <<"when LibreOffice is not available">> >>

\* ---------------------------------------------------------- invocations
RefDir == << <<"tests">>, <<"references">> >>

\* Path("tests/references") / pptx_path.stem
OutputDirOf(pptx_path) == Join(RefDir, PathStem(pptx_path))

\* The input paths tried: the working directory itself, a name in the
\* working directory, and a name lying in its own output directory.
InputPaths ==
  {<<>>} \cup {<<n>> : n \in Names}
         \cup {Append(OutputDirOf(<<n>>), n) : n \in Names}

PdfName == <<"a", ".", "pdf">>

OutputDirs == UNION {[1..k -> {<<"d">>}] : k \in 1..MaxDepth}

Dpis == {72, DefaultDpi}

Invocation(entry, argv, pptx_path, pdf_path, output_dir, output_path, dpi) ==
  [entry |-> entry, argv |-> argv, pptx_path |-> pptx_path,
   pdf_path |-> pdf_path, output_dir |-> output_dir,
   output_path |-> output_path, dpi |-> dpi]

MainInvocations ==
  {Invocation("main", a, <<>>, <<>>, <<>>, <<>>, DefaultDpi) :
     a \in {<<>>} \cup {<<p>> : p \in InputPaths}}

PdfToImagesInvocations ==
  {Invocation("pdf_to_images", <<>>, <<>>, <<PdfName>>, d, <<>>, dpi) :
     d \in OutputDirs, dpi \in Dpis}

PreviewInvocations ==
  {Invocation("pptx_to_pdf_with_preview", <<>>, << <<"a">> >>, <<>>, <<>>,
              <<PdfName>>, DefaultDpi)}

Invocations == MainInvocations \cup PdfToImagesInvocations \cup PreviewInvocations

\* Lexical removal of ".." components.
RECURSIVE Norm(_)
Norm(p) ==
  IF p = <<>> THEN <<>>
  ELSE IF p[Len(p)] = DotDotName THEN Parent(Norm(Parent(p)))
  ELSE Append(Norm(Parent(p)), p[Len(p)])

Prefixes(p) == {SubSeq(p, 1, k) : k \in 0..Len(p)}

\* The paths an invocation can touch.
Touched(inv) ==
  IF inv.entry = "main"
    THEN IF inv.argv = <<>> THEN {RefDir}
         ELSE LET p == inv.argv[1]
                  w == WithSuffix(p, JsonSuffix)
              IN {p, OutputDirOf(p)} \cup (IF w.exc = "none" THEN {w.path} ELSE {})
  ELSE IF inv.entry = "pdf_to_images"
    THEN {inv.pdf_path, inv.output_dir}
  ELSE {inv.pptx_path, inv.output_path}

UniverseOf(inv) == {Norm(q) : q \in UNION {Prefixes(p) : p \in Touched(inv)}}

\* Every file system over the paths of U in which each existing node lies
\* in an existing directory.
FileSystemsOver(U) ==
  LET consistent(k) ==
        /\ k[<<>>] = "dir"
        /\ \A p \in U \ {<<>>} : k[p] # "absent" => k[Parent(p)] = "dir"
      build(k) ==
        [p \in {q \in U : k[q] # "absent"} |->
           IF k[p] = "dir" THEN DirNode ELSE FileNode(<<PriorDoc>>)]
  IN {build(k) : k \in {k \in [U -> {"absent", "dir", "file"}] : consistent(k)}}

\* ----------------------------------------------------------------- state
VARIABLES
  invocation,   \* what is run: main() with sys.argv[1:], or a direct call
  pc,           \* position in the running function
  run,          \* number of runs started
  clock,        \* datetime.now()
  fs,           \* the file system
  fs0,          \* the file system when the current run started
  available,    \* check_dependencies: available
  i,            \* check_dependencies: position in tools.items()
  deps,         \* main: deps
  pptx_path,    \* main: pptx_path
  output_dir,   \* main, pdf_to_images: output_dir
  out,          \* lines printed by the current run
  launched,     \* commands handed to subprocess.run by the current run
  outcomes,     \* what each launched command came to
  calls,        \* functions of the script entered by the current run
  exc           \* exception that left the running function, or "none"

vars ==
  <<invocation, pc, run, clock, fs, fs0, available, i, deps, pptx_path,
    output_dir, out, launched, outcomes, calls, exc>>

NoDeps == [t \in {} |-> FALSE]

Init ==
  /\ invocation \in Invocations
  /\ fs \in FileSystemsOver(UniverseOf(invocation))
  /\ fs0 = fs
  /\ pc = "idle"
  /\ run = 0
  /\ clock = 0
  /\ available = NoDeps
  /\ i = 1
  /\ deps = NoDeps
  /\ pptx_path = <<>>
  /\ output_dir = <<>>
  /\ out = <<>>
  /\ launched = <<>>
  /\ outcomes = <<>>
  /\ calls = <<>>
  /\ exc = "none"

\* A fresh process (or call): nothing printed, launched or raised yet.
Fresh(entry) ==
  /\ pc \in {"idle", "done"}
  /\ invocation.entry = entry
  /\ run < MaxRuns
  /\ run' = run + 1
  /\ clock' = clock + 1
  /\ fs0' = fs
  /\ available' = NoDeps
  /\ i' = 1
  /\ deps' = NoDeps
  /\ pptx_path' = <<>>
  /\ UNCHANGED invocation

\* The process exit status once pc = "done": the interpreter turns an
\* exception that leaves main() into a traceback and status 1.
ExitStatus == IF exc = "none" THEN 0 ELSE 1

\* ---------------------------------------------------- check_dependencies
\* main() up to the call of check_dependencies().
StartMain ==
  /\ Fresh("main")
  /\ out' = BannerLines
  /\ calls' = <<"main", "check_dependencies">>
  /\ launched' = <<>>
  /\ outcomes' = <<>>
  /\ exc' = "none"
  /\ output_dir' = <<>>
  /\ pc' = "check_dependencies"
  /\ UNCHANGED fs

\* One turn of the loop over tools.items(): the except clause takes the
\* exceptions of ProbeCaught, any other leaves check_dependencies and main.
ProbeTool ==
  /\ pc = "check_dependencies"
  /\ i <= Len(Tools)
  /\ \E o \in RunOutcomes :
       LET t == Tools[i]
           r == SubprocessRun(TRUE, o)
       IN /\ launched' = Append(launched, t.cmd)
          /\ outcomes' = Append(outcomes, o)
          /\ IF r = "none"
               THEN /\ available' = (t.name :> TRUE) @@ available
                    /\ out' = Append(out, <<"installed", t.name>>)
                    /\ i' = i + 1
                    /\ UNCHANGED <<pc, exc>>
             ELSE IF r \in ProbeCaught
               THEN /\ available' = (t.name :> FALSE) @@ available
                    /\ out' = Append(out, <<"not installed", t.name>>)
                    /\ i' = i + 1
                    /\ UNCHANGED <<pc, exc>>
             ELSE /\ exc' = r
                  /\ pc' = "done"
                  /\ UNCHANGED <<available, out, i>>
  /\ UNCHANGED <<invocation, run, clock, fs, fs0, deps, pptx_path, output_dir, calls>>

\* return available; deps = check_dependencies()
CheckDependenciesReturn ==
  /\ pc = "check_dependencies"
  /\ i > Len(Tools)
  /\ deps' = available
  /\ pc' = "main_args"
  /\ UNCHANGED <<invocation, run, clock, fs, fs0, available, i, pptx_path,
                 output_dir, out, launched, outcomes, calls, exc>>

\* --------------------------------------------------------------- main
\* if len(sys.argv) < 2: usage and return; else pptx_path = Path(sys.argv[1])
MainCheckArgs ==
  /\ pc = "main_args"
  /\ IF Len(invocation.argv) + 1 < 2
       THEN /\ out' = out \o UsageLines
            /\ pc' = "done"
            /\ UNCHANGED pptx_path
       ELSE /\ pptx_path' = invocation.argv[1]
            /\ pc' = "main_exists"
            /\ UNCHANGED out
  /\ UNCHANGED <<invocation, run, clock, fs, fs0, available, i, deps,
                 output_dir, launched, outcomes, calls, exc>>

\* The existence test left out: every path is taken to exist.
MissingInputNever(f, p) == FALSE

\* not pptx_path.exists()
MissingInput(f, p) == ~Exists(f, p)

MainCheckExists ==
  /\ pc = "main_exists"
  /\ IF MissingInput(fs, pptx_path)
       THEN /\ out' = Append(out, <<"Error: File not found">>)
            /\ pc' = "done"
       ELSE /\ pc' = "main_mkdir"
            /\ UNCHANGED out
  /\ UNCHANGED <<invocation, run, clock, fs, fs0, available, i, deps,
                 pptx_path, output_dir, launched, outcomes, calls, exc>>

\* output_dir = Path("tests/references") / pptx_path.stem; output_dir.mkdir
MainMkdir ==
  /\ pc = "main_mkdir"
  /\ output_dir' = OutputDirOf(pptx_path)
  /\ LET mk == PathMkdir(fs, OutputDirOf(pptx_path))
     IN /\ fs' = mk.fs
        /\ exc' = mk.exc
        /\ IF mk.exc = "none"
             THEN /\ out' = out \o << <<"Processing">>, <<"Output directory">> >>
                  /\ pc' = "main_generate"
             ELSE /\ pc' = "done"
                  /\ UNCHANGED out
  /\ UNCHANGED <<invocation, run, clock, fs0, available, i, deps, pptx_path,
                 launched, outcomes, calls>>

\* generate_reference_data(pptx_path): the file system it leaves and the
\* exception it raises, if any.
GenerateReferenceData(f, p, now) ==
  LET w == WithSuffix(p, JsonSuffix)
  IN IF w.exc # "none" THEN [exc |-> w.exc, fs |-> f]
     ELSE OpenWrite(f, w.path, <<Metadata(p, now)>>)

MainGenerate ==
  /\ pc = "main_generate"
  /\ calls' = Append(calls, "generate_reference_data")
  /\ LET g == GenerateReferenceData(fs, pptx_path, clock)
     IN /\ fs' = g.fs
        /\ exc' = g.exc
        /\ IF g.exc = "none"
             THEN /\ out' = Append(out, <<"Generated metadata">>)
                  /\ pc' = "main_commands"
             ELSE /\ pc' = "done"
                  /\ UNCHANGED out
  /\ UNCHANGED <<invocation, run, clock, fs0, available, i, deps, pptx_path,
                 output_dir, launched, outcomes>>

\* The tail of main() as it would be if the rasterizer were run, not
\* printed, when ImageMagick is there.
MainRunsConversion ==
  /\ pc = "main_commands"
  /\ out' = out \o << <<"LibreOffice command">>, <<"soffice --headless --convert-to pdf">> >>
                \o << <<"Reference generation setup complete">> >>
  /\ calls' = IF deps["ImageMagick"] THEN Append(calls, "pdf_to_images") ELSE calls
  /\ launched' = IF deps["ImageMagick"]
                   THEN Append(launched, ConvertCommand(pptx_path, output_dir, DefaultDpi))
                   ELSE launched
  /\ outcomes' = IF deps["ImageMagick"] THEN Append(outcomes, "nonzero") ELSE outcomes
  /\ pc' = "done"
  /\ UNCHANGED <<invocation, run, clock, fs, fs0, available, i, deps,
                 pptx_path, output_dir, exc>>

\* The tail of main(): the conversion commands are printed, none is run.
MainPrintCommands ==
  /\ pc = "main_commands"
  /\ out' = out \o << <<"LibreOffice command">>, <<"soffice --headless --convert-to pdf">> >>
                \o (IF deps["ImageMagick"]
                      THEN << <<"To convert existing PDFs to images">>,
                              <<"convert -density 300">> >>
                      ELSE <<>>)
                \o << <<"Reference generation setup complete">> >>
  /\ pc' = "done"
  /\ UNCHANGED <<invocation, run, clock, fs, fs0, available, i, deps,
                 pptx_path, output_dir, launched, outcomes, calls, exc>>

\* ------------------------------------------------------- pdf_to_images
\* A direct call pdf_to_images(pdf_path, output_dir, dpi).
CallPdfToImages ==
  /\ Fresh("pdf_to_images")
  /\ output_dir' = invocation.output_dir
  /\ out' = <<>>
  /\ calls' = <<"pdf_to_images">>
  /\ launched' = <<>>
  /\ outcomes' = <<>>
  /\ exc' = "none"
  /\ pc' = "pdf_mkdir"
  /\ UNCHANGED fs

\* mkdir(exist_ok=True) without parents=True: one os.mkdir, no parents made.
EnsureOutputDirNoParents(f, d) ==
  LET m == OsMkdir(f, d)
  IN IF m.err = "none" \/ (m.err # "ENOENT" /\ IsDir(f, d))
       THEN [exc |-> "none", fs |-> m.fs]
       ELSE [exc |-> OSErrorName(m.err), fs |-> f]

\* output_dir.mkdir(parents=True, exist_ok=True)
EnsureOutputDir(f, d) == PathMkdir(f, d)

PdfToImagesMkdir ==
  /\ pc = "pdf_mkdir"
  /\ LET mk == EnsureOutputDir(fs, output_dir)
     IN /\ fs' = mk.fs
        /\ exc' = mk.exc
        /\ pc' = IF mk.exc = "none" THEN "pdf_convert" ELSE "done"
  /\ UNCHANGED <<invocation, run, clock, fs0, available, i, deps, pptx_path,
                 output_dir, out, launched, outcomes, calls>>

\* The pages the rasterizer may have written for an outcome.
PagesWritten(o) ==
  CASE o = "exit0" -> 1..MaxPages
    [] o = "nonzero" -> 0..MaxPages
    [] OTHER -> {0}

\* subprocess.run(cmd, check=True) inside try/except CalledProcessError.
PdfToImagesConvert ==
  /\ pc = "pdf_convert"
  /\ \E o \in RunOutcomes :
       \E n \in PagesWritten(o) :
         LET r == SubprocessRun(TRUE, o)
         IN /\ launched' = Append(launched,
                 ConvertCommand(invocation.pdf_path, output_dir, invocation.dpi))
            /\ outcomes' = Append(outcomes, o)
            /\ fs' = WritePages(fs, invocation.pdf_path, output_dir, invocation.dpi, n)
            /\ IF r = "none"
                 THEN /\ out' = Append(out, <<"Converted PDF to images">>)
                      /\ UNCHANGED exc
               ELSE IF r \in ConvertCaught
                 THEN /\ out' = Append(out, <<"Failed to convert PDF">>)
                      /\ UNCHANGED exc
               ELSE /\ exc' = r
                    /\ UNCHANGED out
  /\ pc' = "done"
  /\ UNCHANGED <<invocation, run, clock, fs0, available, i, deps, pptx_path,
                 output_dir, calls>>

\* -------------------------------------------- pptx_to_pdf_with_preview
\* subprocess.run(['osascript', '-e', applescript]): no check, no except.
\* Whether the application saved the PDF is not known to the script.
CallPreview ==
  /\ Fresh("pptx_to_pdf_with_preview")
  /\ \E o \in RunOutcomes :
       \E saved \in IF o \in {"exit0", "nonzero"} THEN BOOLEAN ELSE {FALSE} :
         /\ launched' = <<OsascriptCommand(invocation.pptx_path, invocation.output_path)>>
         /\ outcomes' = <<o>>
         /\ exc' = SubprocessRun(FALSE, o)
         /\ fs' = IF saved
                    THEN OpenWrite(fs, invocation.output_path,
                                   <<PageDoc(invocation.pptx_path, 0, 0)>>).fs
                    ELSE fs
  /\ out' = <<>>
  /\ calls' = <<"pptx_to_pdf_with_preview">>
  /\ output_dir' = <<>>
  /\ pc' = "done"

Next ==
  \/ StartMain
  \/ ProbeTool
  \/ CheckDependenciesReturn
  \/ MainCheckArgs
  \/ MainCheckExists
  \/ MainMkdir
  \/ MainGenerate
  \/ MainPrintCommands
  \/ CallPdfToImages
  \/ PdfToImagesMkdir
  \/ PdfToImagesConvert
  \/ CallPreview

Spec == Init /\ [][Next]_vars

TypeOK ==
  /\ pc \in {"idle", "check_dependencies", "main_args", "main_exists",
             "main_mkdir", "main_generate", "main_commands", "pdf_mkdir",
             "pdf_convert", "done"}
  /\ run \in 0..MaxRuns
  /\ DOMAIN available \subseteq ToolNames
  /\ <<>> \in DOMAIN fs

\* ------------------------------------------------------------ properties
IsMain == invocation.entry = "main"

IsPdfToImages == invocation.entry = "pdf_to_images"

\* A run of main() with one argument.
HasArg == IsMain /\ Len(invocation.argv) = 1

Arg == invocation.argv[1]

\* The run of main() got an argument naming a path that existed at its start.
ExistingInput == HasArg /\ pc # "idle" /\ Exists(fs0, Arg)

NodeAt(f, p) == f[Lookup(f, p).path]

\* The input path with its extension replaced by .json.
MetadataPath == WithSuffix(Arg, JsonSuffix)

Printed(line) == \E k \in 1..Len(out) : out[k] = line

\* The regular files of f that were not in g with the same content.
FilesWritten(f, g) ==
  {q \in DOMAIN f : f[q].kind = "file" /\ (q \notin DOMAIN g \/ g[q] # f[q])}

\* The files written by the current run that lie in the directory d.
WrittenIn(d) ==
  LET l == Lookup(fs, d)
  IN IF l.err # "none" THEN {}
     ELSE {q \in FilesWritten(fs, fs0) : IsProperPrefix(l.path, q)}

\* C1: every run of main() on an existing path in which the probe reported
\* both tools ends with a metadata file at the input path with its
\* extension replaced by .json, holding one record with exactly the keys
\* source, generated, method, dpi, slides, method "manual", dpi 300 and no
\* slides.
C1_MetadataAlwaysProduced ==
  (pc = "done" /\ ExistingInput /\ DOMAIN deps = ToolNames) =>
    /\ MetadataPath.exc = "none"
    /\ IsFile(fs, MetadataPath.path)
    /\ LET c == NodeAt(fs, MetadataPath.path).content
       IN /\ Len(c) = 1
          /\ DOMAIN c[1] = MetadataKeys
          /\ c[1].method = "manual"
          /\ c[1].dpi = 300
          /\ c[1].slides = <<>>

\* C2: in a run of main() whose argument names a path that does not exist,
\* the file system stays what it was when the run started (no metadata
\* file, no output directory) and the metadata writer is never entered,
\* whatever the probe reported.
C2_MissingInputLeavesFsUnchanged ==
  (HasArg /\ pc # "idle" /\ ~Exists(fs0, Arg)) =>
    /\ fs = fs0
    /\ (~Exists(fs0, OutputDirOf(Arg)) => ~Exists(fs, OutputDirOf(Arg)))
    /\ (MetadataPath.exc = "none" /\ ~Exists(fs0, MetadataPath.path)
          => ~Exists(fs, MetadataPath.path))
    /\ \A k \in 1..Len(calls) : calls[k] # "generate_reference_data"

\* C2 witness: a run on a missing path has ended after the probe reported,
\* with the error line printed and neither directory nor file made.
C2_Witness ==
  /\ HasArg /\ pc = "done" /\ ~Exists(fs0, Arg)
  /\ DOMAIN deps = ToolNames /\ deps["ImageMagick"]
  /\ Printed(<<"Error: File not found">>)
  /\ ~Exists(fs, RefDir)
  /\ exc = "none"

\* C3: every run of main() without argument prints the usage text, creates
\* no file and no directory, and returns before a path is examined, a
\* directory made or the metadata writer called.
C3_NoArgsPrintsUsage ==
  (IsMain /\ invocation.argv = <<>> /\ pc = "done") =>
    /\ \A k \in 1..Len(UsageLines) : Printed(UsageLines[k])
    /\ fs = fs0
    /\ \A k \in 1..Len(calls) : calls[k] # "generate_reference_data"

\* C4: check_dependencies() never raises: whatever launching the two tools
\* comes to, it returns a boolean for ImageMagick and for Ghostscript and
\* main() goes on after it.
C4_ProbeAlwaysReturns ==
  (IsMain /\ pc \notin {"idle", "check_dependencies"}) =>
    /\ DOMAIN deps = ToolNames
    /\ \A t \in ToolNames : deps[t] \in BOOLEAN
    /\ Len(outcomes) = Len(Tools)

\* C5: every run on the same existing input, the first or a later one,
\* succeeds, and the metadata file then holds exactly the record of that
\* run, whatever the file held before.
C5_RerunOverwrites ==
  (pc = "done" /\ ExistingInput) =>
    /\ exc = "none"
    /\ MetadataPath.exc = "none"
    /\ IsFile(fs, MetadataPath.path)
    /\ NodeAt(fs, MetadataPath.path).content = <<Metadata(Arg, clock)>>

\* No component of d is a regular file in f.
Creatable(f, d) == \A q \in Prefixes(d) : ~IsFile(f, q)

AllDirs(f, d) == \A q \in Prefixes(d) : IsDir(f, q)

C7_ConvertNeverPropagates ==
  (IsPdfToImages /\ pc = "done" /\ Len(launched) = 1) =>
    /\ exc = "none"
    /\ Len(out) = 1
    /\ (outcomes[1] = "exit0" <=> out[1] = <<"Converted PDF to images">>)
    /\ (outcomes[1] # "exit0" <=> out[1] = <<"Failed to convert PDF">>)

\* C8: every run of main() ends with exit status 0.
C8_AlwaysExitZero ==
  (IsMain /\ pc = "done") => ExitStatus = 0

ConversionFunctions == {"pdf_to_images", "pptx_to_pdf_with_preview"}

\* What C9 says of a run apart from the files in the output directory: no
\* conversion function is entered, only the version probes are launched,
\* and the ImageMagick command is printed only when the probe found it.
NoConversionRun ==
  /\ \A k \in 1..Len(calls) : calls[k] \notin ConversionFunctions
  /\ \A k \in 1..Len(launched) : launched[k] \in ProbeCommands
  /\ Len(launched) <= Len(Tools)
  /\ (Printed(<<"convert -density 300">>)
        => DOMAIN deps = ToolNames /\ deps["ImageMagick"])

\* C9 as stated: in every run of main() no conversion is performed and the
\* output directory tests/references/<input-stem> holds no file written
\* by the run.
C9_NoFileInOutputDir ==
  IsMain =>
    /\ NoConversionRun
    /\ (HasArg => WrittenIn(OutputDirOf(Arg)) = {})

\* C9 amended: in every run of main() no conversion is performed and the
\* output directory holds no file written by the run other than the
\* metadata file, which lies there when the input itself lies in
\* tests/references/<input-stem>.
C9_OnlyMetadataInOutputDir ==
  IsMain =>
    /\ NoConversionRun
    /\ (HasArg =>
          \A q \in WrittenIn(OutputDirOf(Arg)) :
            /\ MetadataPath.exc = "none"
            /\ q = Lookup(fs, MetadataPath.path).path)

\* C9 witness: a complete run with ImageMagick found has printed the
\* convert command and launched the two probes only; the input lies in its
\* own output directory, where the metadata file now is.
C9_Witness ==
  /\ HasArg /\ pc = "done" /\ exc = "none"
  /\ Len(launched) = 2
  /\ Printed(<<"convert -density 300">>)
  /\ Printed(<<"Reference generation setup complete">>)
  /\ WrittenIn(OutputDirOf(Arg)) # {}

\* C10: a run of main() on an existing input leaves the input as it was:
\* the metadata path differs from the input path, so the node at the input
\* path is the one that was there when the run started.
C10_InputNeverModified ==
  (pc = "done" /\ ExistingInput) =>
    /\ Exists(fs, Arg)
    /\ NodeAt(fs, Arg) = NodeAt(fs0, Arg)
    /\ (exc = "none" /\ (\E k \in 1..Len(calls) : calls[k] = "generate_reference_data")
          => MetadataPath.path # Arg)

====
